---- MODULE Spec2Model ----
(***************************************************************************)
(* State-machine model of src/src/main.ts: the geocache token game.        *)
(*                                                                         *)
(* Module-level mutable state of main.ts is the record G below; every      *)
(* function of main.ts that reads or writes it is an operator from such a  *)
(* record to the record after the call, and every event handler is one     *)
(* action.                                                                 *)
(*                                                                         *)
(* Encodings.                                                              *)
(*  - number | null  : a sequence of length <= 1 (Null = <<>>, <<v>>).     *)
(*  - Cell           : a record [i, j]; cellKey's string "i,j" is the      *)
(*                     tuple <<i, j>>.                                     *)
(*  - LatLng         : a record [lat, lng] in units of 1e-6 degree, so     *)
(*                     TILE_DEGREES (0.0001 degree) is 100 units and       *)
(*                     Math.floor(x / TILE_DEGREES) is x \div 100.         *)
(*  - luck(key)      : a float in [0,1) is a numerator over LuckScale.     *)
(*  - Map<string, T> : a function on a finite set of keys (insertion       *)
(*                     order, which no handler reads, is not kept).        *)
(*  - Leaflet map    : only its centre (mapCenter); panTo and setView      *)
(*                     recentre it, and the moveend event that follows is  *)
(*                     the separate action MoveEnd.                        *)
(***************************************************************************)
EXTENDS Integers, Sequences, FiniteSets, TLC

VARIABLES
    playerCell,       \* let playerCell: Cell
    playerInventory,  \* let playerInventory: number | null
    cacheStates,      \* const cacheStates: Map<string, CacheState>
    activeCaches,     \* const activeCaches: Map<string, {...}> with each closure's cacheValue
    mapCenter,        \* centre of the Leaflet map (LatLng)
    statusPanel,      \* what statusPanel.innerHTML shows
    storage,          \* localStorage item "geocacheGameState"
    alertMsg,         \* alert() raised by the latest event, if any
    addedToMap,       \* keys whose rectangle and marker the latest event added to the map
    removedFromMap,   \* keys whose rectangle and marker the latest event removed from it
    movementMode      \* const movementMode (query string)

vars == <<playerCell, playerInventory, cacheStates, activeCaches, mapCenter,
          statusPanel, storage, alertMsg, addedToMap, removedFromMap,
          movementMode>>

----------------------------------------------------------------------------
(* GAME CONSTANTS *)

TILE_DEGREES == 100
INTERACT_RANGE == 3
VIEWPORT_RADIUS == 50
TARGET_VALUE == 64
\* CACHE_SPAWN_PROBABILITY = 0.1 as the fraction SpawnProbNum / SpawnProbDen
SpawnProbNum == 1
SpawnProbDen == 10

\* STARTING_LATLNG = (36.997936938057016, -122.05703507501151), in 1e-6 degree
STARTING_LATLNG == [lat |-> 36997936, lng |-> -122057036]

----------------------------------------------------------------------------
(* Bounds of the model *)

\* luck() values are numerators over LuckScale
LuckScale == 10
\* the player walks at most MaxWalk cells north and east of a patch's corner
MaxWalk == 1
\* half the window's height and width, in 1e-6 degree
HalfHeight == 250
HalfWidth == 350

Null == <<>>
Some(v) == <<v>>
NoAlert == "none"
TooFar == "Too far away! Move closer to interact."
NothingHappens == "Nothing happens. Try picking up or combining matching tokens!"
Modes == {"buttons", "geolocation"}

Abs(x) == IF x < 0 THEN -x ELSE x

----------------------------------------------------------------------------
(* CELL COORDINATE FUNCTIONS *)

cellKey(cell) == <<cell.i, cell.j>>

latLngToCell(latLng) ==
    [i |-> latLng.lat \div TILE_DEGREES, j |-> latLng.lng \div TILE_DEGREES]

cellToLatLng(cell) ==
    [lat |-> cell.i * TILE_DEGREES, lng |-> cell.j * TILE_DEGREES]

StartCell == latLngToCell(STARTING_LATLNG)

\* the cell di rows north and dj columns east of the start cell
At(di, dj) == [i |-> StartCell.i + di, j |-> StartCell.j + dj]

----------------------------------------------------------------------------
(* The world: the part of the unbounded lattice the model looks at, and    *)
(* luck() on it.  Two patches: one around the start cell with caches of    *)
(* values 2, 4 and 8 at distances up to 4 from where the player walks, and *)
(* one WinCol columns east with eight caches of value 8.                   *)

WinCol == 1000

\* spawning cells and the numerator luck gives their "value" key
ValueTable ==
    ( <<0, 0>>   :> 0 ) @@ ( <<-2, -2>> :> 0 ) @@
    ( <<4, 0>>   :> 4 ) @@ ( <<0, 4>>   :> 9 ) @@
    ( <<55, 0>>  :> 0 ) @@
    ( <<1, WinCol>>      :> 9 ) @@ ( <<-1, WinCol>>     :> 9 ) @@
    ( <<0, WinCol + 1>>  :> 9 ) @@ ( <<0, WinCol - 1>>  :> 9 ) @@
    ( <<1, WinCol + 1>>  :> 9 ) @@ ( <<-1, WinCol - 1>> :> 9 ) @@
    ( <<1, WinCol - 1>>  :> 9 ) @@ ( <<-1, WinCol + 1>> :> 9 )

SpawnOffsets == DOMAIN ValueTable

\* cells the player can stand on
StartPatch == {At(di, dj) : di \in 0..MaxWalk, dj \in 0..MaxWalk}
WinPatch == {At(0, WinCol), At(1, WinCol)}
Walkable == StartPatch \cup WinPatch

Lattice ==
    Walkable \cup {At(o[1], o[2]) : o \in SpawnOffsets}
             \cup {At(2, 2), At(-1, 3), At(50, 0), At(0, WinCol + 2)}

\* luck(`${i},${j},${tag}`)
luck(i, j, tag) ==
    LET o == <<i - StartCell.i, j - StartCell.j>> IN
    IF tag = "spawn"
    THEN (IF o \in SpawnOffsets THEN 0 ELSE 5)
    ELSE (IF o \in SpawnOffsets THEN ValueTable[o] ELSE 4)

----------------------------------------------------------------------------
(* The module-level state as one record *)

G == [playerCell |-> playerCell, playerInventory |-> playerInventory,
      cacheStates |-> cacheStates, activeCaches |-> activeCaches,
      mapCenter |-> mapCenter, statusPanel |-> statusPanel,
      storage |-> storage, alertMsg |-> alertMsg,
      addedToMap |-> addedToMap, removedFromMap |-> removedFromMap,
      movementMode |-> movementMode]

\* the state an event handler starts from: it has not yet raised an alert
\* nor drawn or erased anything
Fresh(g) == [g EXCEPT !.alertMsg = NoAlert, !.addedToMap = {},
                      !.removedFromMap = {}]
Event == Fresh(G)

Commit(g) ==
    /\ playerCell' = g.playerCell
    /\ playerInventory' = g.playerInventory
    /\ cacheStates' = g.cacheStates
    /\ activeCaches' = g.activeCaches
    /\ mapCenter' = g.mapCenter
    /\ statusPanel' = g.statusPanel
    /\ storage' = g.storage
    /\ alertMsg' = g.alertMsg
    /\ addedToMap' = g.addedToMap
    /\ removedFromMap' = g.removedFromMap
    /\ movementMode' = g.movementMode

\* Map.set and Map.delete
MapSet(m, k, v) == [x \in DOMAIN m \cup {k} |-> IF x = k THEN v ELSE m[x]]
MapDelete(m, k) == [x \in DOMAIN m \ {k} |-> m[x]]
EmptyMap == [x \in {} |-> 0]

----------------------------------------------------------------------------
(* Range check, generator and cache state store *)

\* canInteract with < in place of <=
canInteract_Strict(g, cell) ==
    LET di == Abs(cell.i - g.playerCell.i)
        dj == Abs(cell.j - g.playerCell.j)
    IN  di < INTERACT_RANGE /\ dj < INTERACT_RANGE

canInteract(g, cell) ==
    LET di == Abs(cell.i - g.playerCell.i)
        dj == Abs(cell.j - g.playerCell.j)
    IN  di <= INTERACT_RANGE /\ dj <= INTERACT_RANGE

\* determineCacheValue without the `1 +` in the exponent: 1, 2 or 4
determineCacheValue_ZeroBased(cell) ==
    LET valueSeed == luck(cell.i, cell.j, "value")
        powerOf2 == (valueSeed * 3) \div LuckScale
    IN  2 ^ powerOf2

determineCacheValue(cell) ==
    LET valueSeed == luck(cell.i, cell.j, "value")
        powerOf2 == 1 + ((valueSeed * 3) \div LuckScale)
    IN  2 ^ powerOf2

getCacheValue(g, cell) ==
    LET key == cellKey(cell) IN
    IF key \in DOMAIN g.cacheStates
    THEN g.cacheStates[key].value
    ELSE determineCacheValue(cell)

\* setCacheValue that deletes the record of a cell set to 0
setCacheValue_DeleteEmpty(g, cell, value) ==
    IF value = 0
    THEN [g EXCEPT !.cacheStates = MapDelete(@, cellKey(cell))]
    ELSE [g EXCEPT !.cacheStates = MapSet(@, cellKey(cell), [value |-> value])]

\* setCacheValue guarded by `if (value)`: a 0 is not stored
setCacheValue_SkipZero(g, cell, value) ==
    IF value = 0 THEN g
    ELSE [g EXCEPT !.cacheStates = MapSet(@, cellKey(cell), [value |-> value])]

setCacheValue(g, cell, value) ==
    [g EXCEPT !.cacheStates = MapSet(@, cellKey(cell), [value |-> value])]

shouldSpawnCache(cell) ==
    LET spawnChance == luck(cell.i, cell.j, "spawn")
    IN  spawnChance * SpawnProbDen < SpawnProbNum * LuckScale

----------------------------------------------------------------------------
(* STATUS UPDATE *)

\* updateStatusPanel with the target of the first milestone (8) left in
updateStatusPanel_OldTarget(g) ==
    [g EXCEPT !.statusPanel =
        [cellInfo |-> <<g.playerCell.i, g.playerCell.j>>,
         inventoryInfo |-> g.playerInventory,
         victory |-> IF g.playerInventory = Null
                     THEN FALSE
                     ELSE g.playerInventory[1] >= 8]]

updateStatusPanel(g) ==
    [g EXCEPT !.statusPanel =
        [cellInfo |-> <<g.playerCell.i, g.playerCell.j>>,
         inventoryInfo |-> g.playerInventory,
         victory |-> IF g.playerInventory = Null
                     THEN FALSE
                     ELSE g.playerInventory[1] >= TARGET_VALUE]]

----------------------------------------------------------------------------
(* LOCALSTORAGE PERSISTENCE *)

\* Array.from(map.entries()), as the set of [key, value] pairs
MapEntries(m) == {<<k, m[k]>> : k \in DOMAIN m}

\* entries.forEach(([key, value]) => map.set(key, value)) on an empty map
MapFromEntries(es) ==
    [k \in {e[1] : e \in es} |-> (CHOOSE e \in es : e[1] = k)[2]]

\* saveGameState that leaves the emptied caches (value 0) out of the blob
saveGameState_NonEmpty(g) ==
    LET state == [playerCell |-> [i |-> g.playerCell.i, j |-> g.playerCell.j],
                  playerInventory |-> g.playerInventory,
                  cacheStates |-> {e \in MapEntries(g.cacheStates) : e[2].value # 0}]
    IN  [g EXCEPT !.storage = Some(state)]

saveGameState(g) ==
    LET state == [playerCell |-> [i |-> g.playerCell.i, j |-> g.playerCell.j],
                  playerInventory |-> g.playerInventory,
                  cacheStates |-> MapEntries(g.cacheStates)]
    IN  [g EXCEPT !.storage = Some(state)]

\* The stored item is a text.  A text that JSON.parse accepts is modelled by
\* the object it parses to, a record with a field for each property the
\* object has; a text it throws on is the record NotJSON.
NotJSON == [syntaxError |-> TRUE]
IsJSON(saved) == "syntaxError" \notin DOMAIN saved

Undefined == [undefined |-> TRUE]

\* state.f: undefined when the object has no property f
Prop(state, f) == IF f \in DOMAIN state THEN state[f] ELSE Undefined

\* [ok |-> the boolean returned, g |-> the state after the call].  The
\* assignments made inside the try block before an exception stay in place
\* when the catch block returns false.
loadGameState(g) ==
    IF g.storage = Null
    THEN [ok |-> FALSE, g |-> g]
    ELSE IF ~IsJSON(g.storage[1])
    THEN [ok |-> FALSE, g |-> g]                    \* JSON.parse throws
    ELSE LET state == g.storage[1]
             g1 == [g EXCEPT !.playerCell = Prop(state, "playerCell"),
                             !.playerInventory = Prop(state, "playerInventory"),
                             !.cacheStates = EmptyMap]
         IN  IF "cacheStates" \notin DOMAIN state
             THEN [ok |-> FALSE, g |-> g1]          \* undefined.forEach throws
             ELSE LET g2 == [g1 EXCEPT !.cacheStates =
                                          MapFromEntries(state.cacheStates)]
                  IN  IF "i" \notin DOMAIN g2.playerCell
                      THEN [ok |-> FALSE, g |-> g2] \* cellToLatLng(undefined) throws
                      ELSE [ok |-> TRUE,
                            g |-> [g2 EXCEPT !.mapCenter =
                                                cellToLatLng(g2.playerCell)]]

----------------------------------------------------------------------------
(* CACHE MANAGEMENT *)

\* updateVisual() of the closure created for `key`: the label shows the
\* closure's cacheValue when it is positive and is hidden (0) otherwise
updateVisual(g, key) ==
    [g EXCEPT !.activeCaches[key].label =
        IF g.activeCaches[key].cacheValue > 0
        THEN g.activeCaches[key].cacheValue
        ELSE 0]

\* createCacheVisual without `if (activeCaches.has(key)) return`
createCacheVisual_NoExistsCheck(g, cell) ==
    LET key == cellKey(cell) IN
    IF ~shouldSpawnCache(cell) THEN g
    ELSE LET cacheValue == getCacheValue(g, cell)
             g1 == [g EXCEPT !.addedToMap = @ \cup {key},
                             !.activeCaches =
                                MapSet(@, key, [cell |-> cell,
                                                cacheValue |-> cacheValue,
                                                label |-> cacheValue])]
         IN  updateVisual(g1, key)

\* createCacheVisual seeded with determineCacheValue, not getCacheValue
createCacheVisual_Default(g, cell) ==
    LET key == cellKey(cell) IN
    IF key \in DOMAIN g.activeCaches THEN g
    ELSE IF ~shouldSpawnCache(cell) THEN g
    ELSE LET cacheValue == determineCacheValue(cell)
             g1 == [g EXCEPT !.addedToMap = @ \cup {key},
                             !.activeCaches =
                                MapSet(@, key, [cell |-> cell,
                                                cacheValue |-> cacheValue,
                                                label |-> cacheValue])]
         IN  updateVisual(g1, key)

\* createCacheVisual without `if (!shouldSpawnCache(cell)) return`
createCacheVisual_NoSpawnCheck(g, cell) ==
    LET key == cellKey(cell) IN
    IF key \in DOMAIN g.activeCaches THEN g
    ELSE LET cacheValue == getCacheValue(g, cell)
             g1 == [g EXCEPT !.addedToMap = @ \cup {key},
                             !.activeCaches =
                                MapSet(@, key, [cell |-> cell,
                                                cacheValue |-> cacheValue,
                                                label |-> cacheValue])]
         IN  updateVisual(g1, key)

createCacheVisual(g, cell) ==
    LET key == cellKey(cell) IN
    IF key \in DOMAIN g.activeCaches THEN g
    ELSE IF ~shouldSpawnCache(cell) THEN g
    ELSE LET cacheValue == getCacheValue(g, cell)
             g1 == [g EXCEPT !.addedToMap = @ \cup {key},
                             !.activeCaches =
                                MapSet(@, key, [cell |-> cell,
                                                cacheValue |-> cacheValue,
                                                label |-> cacheValue])]
         IN  updateVisual(g1, key)

\* the closure's `cacheValue = v`
SetLocal(g, key, v) == [g EXCEPT !.activeCaches[key].cacheValue = v]

\* pick up without `cacheValue = 0`: the token stays in the cache as well
pickUp_KeepCell(g, cell) ==
    LET key == cellKey(cell)
        g1 == [g EXCEPT !.playerInventory = Some(g.activeCaches[key].cacheValue)]
        g3 == setCacheValue(g1, cell, g1.activeCaches[key].cacheValue)
    IN  saveGameState(updateStatusPanel(updateVisual(g3, key)))

\* Case 1 of handleInteraction: pick up token
pickUp(g, cell) ==
    LET key == cellKey(cell)
        g1 == [g EXCEPT !.playerInventory = Some(g.activeCaches[key].cacheValue)]
        g2 == SetLocal(g1, key, 0)
        g3 == setCacheValue(g2, cell, g2.activeCaches[key].cacheValue)
    IN  saveGameState(updateStatusPanel(updateVisual(g3, key)))

\* craft without `playerInventory = null`
craft_KeepHeld(g, cell) ==
    LET key == cellKey(cell)
        g1 == SetLocal(g, key, g.playerInventory[1] * 2)
        g3 == setCacheValue(g1, cell, g1.activeCaches[key].cacheValue)
    IN  saveGameState(updateStatusPanel(updateVisual(g3, key)))

\* Case 2 of handleInteraction: craft - combine equal tokens
craft(g, cell) ==
    LET key == cellKey(cell)
        g1 == SetLocal(g, key, g.playerInventory[1] * 2)
        g2 == [g1 EXCEPT !.playerInventory = Null]
        g3 == setCacheValue(g2, cell, g2.activeCaches[key].cacheValue)
    IN  saveGameState(updateStatusPanel(updateVisual(g3, key)))

\* Case 3 of handleInteraction: place token into empty cache
place(g, cell) ==
    LET key == cellKey(cell)
        g1 == SetLocal(g, key, g.playerInventory[1])
        g2 == [g1 EXCEPT !.playerInventory = Null]
        g3 == setCacheValue(g2, cell, g2.activeCaches[key].cacheValue)
    IN  saveGameState(updateStatusPanel(updateVisual(g3, key)))

\* handleInteraction without the `return` after the range alert
handleInteraction_NoReturn(g, cell) ==
    LET cacheValue == g.activeCaches[cellKey(cell)].cacheValue
        g0 == IF ~canInteract(g, cell) THEN [g EXCEPT !.alertMsg = TooFar] ELSE g
    IN
    IF g.playerInventory = Null /\ cacheValue > 0
    THEN pickUp(g0, cell)
    ELSE IF g.playerInventory # Null /\ cacheValue > 0
            /\ g.playerInventory[1] = cacheValue
    THEN craft(g0, cell)
    ELSE IF g.playerInventory # Null /\ cacheValue = 0
    THEN place(g0, cell)
    ELSE [g0 EXCEPT !.alertMsg = NothingHappens]

\* handleInteraction() of the closure createCacheVisual made for `cell`
handleInteraction(g, cell) ==
    LET cacheValue == g.activeCaches[cellKey(cell)].cacheValue IN
    IF ~canInteract(g, cell)
    THEN [g EXCEPT !.alertMsg = TooFar]
    ELSE IF g.playerInventory = Null /\ cacheValue > 0
    THEN pickUp(g, cell)
    ELSE IF g.playerInventory # Null /\ cacheValue > 0
            /\ g.playerInventory[1] = cacheValue
    THEN craft(g, cell)
    ELSE IF g.playerInventory # Null /\ cacheValue = 0
    THEN place(g, cell)
    ELSE [g EXCEPT !.alertMsg = NothingHappens]

\* removeCacheVisual without `activeCaches.delete(key)`
removeCacheVisual_KeepEntry(g, cell) ==
    LET key == cellKey(cell) IN
    IF key \in DOMAIN g.activeCaches
    THEN [g EXCEPT !.removedFromMap = @ \cup {key}]
    ELSE g

\* removeCacheVisual that also forgets the cell's stored state
removeCacheVisual_DropState(g, cell) ==
    LET key == cellKey(cell) IN
    IF key \in DOMAIN g.activeCaches
    THEN [g EXCEPT !.removedFromMap = @ \cup {key},
                   !.activeCaches = MapDelete(@, key),
                   !.cacheStates = MapDelete(@, key)]
    ELSE g

removeCacheVisual(g, cell) ==
    LET key == cellKey(cell) IN
    IF key \in DOMAIN g.activeCaches
    THEN [g EXCEPT !.removedFromMap = @ \cup {key},
                   !.activeCaches = MapDelete(@, key)]
    ELSE g

getVisibleCells(g) ==
    LET nwCell == latLngToCell([lat |-> g.mapCenter.lat + HalfHeight,
                                lng |-> g.mapCenter.lng - HalfWidth])
        seCell == latLngToCell([lat |-> g.mapCenter.lat - HalfHeight,
                                lng |-> g.mapCenter.lng + HalfWidth])
    IN  {c \in Lattice :
            /\ nwCell.i - VIEWPORT_RADIUS <= c.i
            /\ c.i <= seCell.i + VIEWPORT_RADIUS
            /\ nwCell.j - VIEWPORT_RADIUS <= c.j
            /\ c.j <= seCell.j + VIEWPORT_RADIUS}

\* for (const [key, cache] of activeCaches) if (!visibleKeys.has(key)) removeCacheVisual(cache.cell)
RECURSIVE RemoveLoop(_, _, _)
RemoveLoop(g, keys, visibleKeys) ==
    IF keys = {} THEN g
    ELSE LET key == CHOOSE k \in keys : TRUE
             g1 == IF key \notin visibleKeys
                   THEN removeCacheVisual(g, g.activeCaches[key].cell)
                   ELSE g
         IN  RemoveLoop(g1, keys \ {key}, visibleKeys)

\* for (const cell of visibleCells) createCacheVisual(cell)
RECURSIVE CreateLoop(_, _)
CreateLoop(g, cells) ==
    IF cells = {} THEN g
    ELSE LET cell == CHOOSE c \in cells : TRUE
         IN  CreateLoop(createCacheVisual(g, cell), cells \ {cell})

regenerateCaches(g) ==
    LET visibleCells == getVisibleCells(g)
        visibleKeys == {cellKey(c) : c \in visibleCells}
        g1 == RemoveLoop(g, DOMAIN g.activeCaches, visibleKeys)
    IN  CreateLoop(g1, visibleCells)

----------------------------------------------------------------------------
(* PLAYER MOVEMENT, NEW GAME *)

\* movePlayer without the closing saveGameState()
movePlayer_NoSave(g, di, dj) ==
    LET g1 == [g EXCEPT !.playerCell = [i |-> g.playerCell.i + di,
                                        j |-> g.playerCell.j + dj]]
        g2 == [g1 EXCEPT !.mapCenter = cellToLatLng(g1.playerCell)]
    IN  updateStatusPanel(g2)

movePlayer(g, di, dj) ==
    LET g1 == [g EXCEPT !.playerCell = [i |-> g.playerCell.i + di,
                                        j |-> g.playerCell.j + dj]]
        g2 == [g1 EXCEPT !.mapCenter = cellToLatLng(g1.playerCell)]
    IN  saveGameState(updateStatusPanel(g2))

\* navigator.geolocation.watchPosition's success callback
watchPosition(g, newLatLng) ==
    LET newCell == latLngToCell(newLatLng) IN
    IF newCell.i # g.playerCell.i \/ newCell.j # g.playerCell.j
    THEN LET g1 == [g EXCEPT !.playerCell = newCell, !.mapCenter = newLatLng]
         IN  saveGameState(updateStatusPanel(g1))
    ELSE g

\* the #reset handler emptying the inventory as well
resetPosition_DropHeld(g) ==
    LET g1 == [g EXCEPT !.playerCell = latLngToCell(STARTING_LATLNG),
                        !.mapCenter = STARTING_LATLNG,
                        !.playerInventory = Null]
    IN  saveGameState(updateStatusPanel(g1))

\* click on #reset
resetPosition(g) ==
    LET g1 == [g EXCEPT !.playerCell = latLngToCell(STARTING_LATLNG),
                        !.mapCenter = STARTING_LATLNG]
    IN  saveGameState(updateStatusPanel(g1))

\* resetGame without removing the rectangles and markers and without
\* activeCaches.clear()
resetGame_KeepVisuals(g, confirmed) ==
    IF ~confirmed THEN g
    ELSE LET g1 == [g EXCEPT !.storage = Null,
                             !.cacheStates = EmptyMap,
                             !.playerInventory = Null,
                             !.playerCell = latLngToCell(STARTING_LATLNG),
                             !.mapCenter = STARTING_LATLNG]
         IN  saveGameState(updateStatusPanel(regenerateCaches(g1)))

resetGame(g, confirmed) ==
    IF ~confirmed THEN g
    ELSE LET g1 == [g EXCEPT !.storage = Null,
                             !.cacheStates = EmptyMap,
                             !.playerInventory = Null,
                             !.playerCell = latLngToCell(STARTING_LATLNG),
                             !.mapCenter = STARTING_LATLNG,
                             !.removedFromMap = @ \cup DOMAIN g.activeCaches,
                             !.activeCaches = EmptyMap]
         IN  saveGameState(updateStatusPanel(regenerateCaches(g1)))

----------------------------------------------------------------------------
(* INITIALIZATION: the module's top-level code, run on every page load *)

Boot(saved, mode) ==
    LET g0 == [playerCell |-> Undefined, playerInventory |-> Null,
               cacheStates |-> EmptyMap, activeCaches |-> EmptyMap,
               mapCenter |-> STARTING_LATLNG,
               statusPanel |-> [cellInfo |-> <<>>, inventoryInfo |-> Null,
                                victory |-> FALSE],
               storage |-> saved, alertMsg |-> NoAlert,
               addedToMap |-> {}, removedFromMap |-> {},
               movementMode |-> mode]
        loaded == loadGameState(g0)
        g1 == IF loaded.ok THEN loaded.g
              ELSE [loaded.g EXCEPT !.playerCell = latLngToCell(STARTING_LATLNG)]
    IN  updateStatusPanel(regenerateCaches(g1))

----------------------------------------------------------------------------
(* Events *)

\* a click on the rectangle or marker of an active cache
Click(cell) ==
    /\ cellKey(cell) \in DOMAIN activeCaches
    /\ \E gNew \in {handleInteraction(Event, cell)} : Commit(gNew)

\* the four direction buttons (ButtonMovementController)
MoveButton(di, dj) ==
    /\ movementMode = "buttons"
    /\ [i |-> playerCell.i + di, j |-> playerCell.j + dj] \in Walkable
    /\ \E gNew \in {movePlayer(Event, di, dj)} : Commit(gNew)

\* a position fix (GeolocationMovementController)
GpsFixes == {[lat |-> cellToLatLng(c).lat + 50, lng |-> cellToLatLng(c).lng + 50] :
                c \in StartPatch}

PositionFix(latLng) ==
    /\ movementMode = "geolocation"
    /\ \E gNew \in {watchPosition(Event, latLng)} : Commit(gNew)

ResetButton ==
    /\ movementMode = "buttons"
    /\ \E gNew \in {resetPosition(Event)} : Commit(gNew)

NewGameButton(confirmed) ==
    \E gNew \in {resetGame(Event, confirmed)} : Commit(gNew)

\* map.on("moveend", ...)
MoveEnd ==
    \E gNew \in {regenerateCaches(Event)} : Commit(gNew)

\* the user drags the map; Leaflet fires moveend when the drag ends
PanTargets == {STARTING_LATLNG, cellToLatLng(At(50, 0))}

MapDrag(center) ==
    \E gNew \in {regenerateCaches([Event EXCEPT !.mapCenter = center])} : Commit(gNew)

\* the page is (re)loaded with ?movement=mode (also the #switchMode button)
PageLoad(mode) ==
    \E gNew \in {Boot(storage, mode)} : Commit(gNew)

\* the variables hold the module-level state g
Holds(g) ==
    /\ playerCell = g.playerCell
    /\ playerInventory = g.playerInventory
    /\ cacheStates = g.cacheStates
    /\ activeCaches = g.activeCaches
    /\ mapCenter = g.mapCenter
    /\ statusPanel = g.statusPanel
    /\ storage = g.storage
    /\ alertMsg = g.alertMsg
    /\ addedToMap = g.addedToMap
    /\ removedFromMap = g.removedFromMap
    /\ movementMode = g.movementMode

\* first page load: nothing is stored
Init ==
    \E mode \in Modes : Holds(Boot(Null, mode))

Directions == {<<1, 0>>, <<-1, 0>>, <<0, -1>>, <<0, 1>>}

Next ==
    \/ \E cell \in Lattice : Click(cell)
    \/ \E d \in Directions : MoveButton(d[1], d[2])
    \/ \E latLng \in GpsFixes : PositionFix(latLng)
    \/ ResetButton
    \/ \E confirmed \in BOOLEAN : NewGameButton(confirmed)
    \/ MoveEnd
    \/ \E center \in PanTargets : MapDrag(center)
    \/ \E mode \in Modes : PageLoad(mode)

Spec == Init /\ [][Next]_vars

\* A later page load in button mode: the player had walked WinCol cells east
\* without touching a cache, and that position was stored.
WinBlob == [playerCell |-> At(0, WinCol), playerInventory |-> Null,
            cacheStates |-> {}]

InitWin == Holds(Boot(Some(WinBlob), "buttons"))

NextWin ==
    \/ \E cell \in Lattice : Click(cell)
    \/ \E d \in Directions : MoveButton(d[1], d[2])
    \/ MoveEnd

SpecWin == InitWin /\ [][NextWin]_vars

\* A page load that finds an item this version of the program did not
\* write: a text that is not JSON, an object without cacheStates, an
\* object without playerCell.
StoredBlobs ==
    { NotJSON,
      [playerCell |-> At(1, 1), playerInventory |-> Some(2)],
      [playerInventory |-> Null,
       cacheStates |-> {<<cellKey(At(0, 0)), [value |-> 0]>>}] }

InitLoad ==
    \E blob \in StoredBlobs : \E mode \in Modes : Holds(Boot(Some(blob), mode))

SpecLoad == InitLoad /\ [][Next]_vars

----------------------------------------------------------------------------
(* THE COORDINATE FUNCTIONS IN BINARY64                                    *)
(*                                                                         *)
(* The numbers of main.ts are IEEE 754 binary64.  latLngToCell and         *)
(* cellToLatLng above compute in exact multiples of 1e-6 degree, which is  *)
(* what the viewport and the movement handlers need; the definitions below *)
(* compute `cell.i * TILE_DEGREES` and `Math.floor(lat / TILE_DEGREES)`    *)
(* bit for bit, with round-to-nearest-even after each operation.           *)
(*                                                                         *)
(* A natural number below 2^120 is eight limbs of 15 bits, least           *)
(* significant first.  A binary64 number is [neg, m, e]: the value         *)
(* (-1)^neg * m * 2^e with m < 2^53 (zero is m = 0).                       *)
(*                                                                         *)
(* Each operator binds its arguments by ranging over singletons, so that   *)
(* an argument is evaluated once however often the body names it.          *)

Only(S) == CHOOSE v \in S : TRUE

LimbBits == 15
LimbBase == 2 ^ LimbBits
BigZero == <<0, 0, 0, 0, 0, 0, 0, 0>>
Limbs == DOMAIN BigZero

\* the limb at position k, 0 outside the eight limbs
Limb(a, k) == IF k \in Limbs THEN a[k] ELSE 0

\* a machine integer 0 <= n < 2^31 as limbs, and back
BigInt(x) ==
    Only({[k \in Limbs |-> IF k = 1 THEN n % LimbBase
                           ELSE IF k = 2 THEN (n \div LimbBase) % LimbBase
                           ELSE IF k = 3 THEN n \div (LimbBase * LimbBase)
                           ELSE 0] : n \in {x}})

BigValue(x) ==
    Only({a[1] + a[2] * LimbBase + a[3] * LimbBase * LimbBase : a \in {x}})

BigAdd(x, y) ==
    Only({LET carry[k \in 0..Len(BigZero)] ==
                  IF k = 0 THEN 0 ELSE (a[k] + b[k] + carry[k - 1]) \div LimbBase
          IN  [k \in Limbs |-> (a[k] + b[k] + carry[k - 1]) % LimbBase]
          : a \in {x}, b \in {y}})

\* x - y, for x >= y
BigSub(x, y) ==
    Only({LET borrow[k \in 0..Len(BigZero)] ==
                  IF k = 0 THEN 0
                  ELSE IF a[k] - b[k] - borrow[k - 1] < 0 THEN 1 ELSE 0
          IN  [k \in Limbs |-> (a[k] - b[k] - borrow[k - 1] + LimbBase) % LimbBase]
          : a \in {x}, b \in {y}})

BigLess(x, y) ==
    \E a \in {x}, b \in {y} :
        \E k \in Limbs : a[k] < b[k] /\ \A j \in Limbs : j > k => a[j] = b[j]

\* x * y for one limb y
BigTimesLimb(x, y) ==
    Only({LET carry[k \in 0..Len(BigZero)] ==
                  IF k = 0 THEN 0 ELSE (a[k] * d + carry[k - 1]) \div LimbBase
          IN  [k \in Limbs |-> (a[k] * d + carry[k - 1]) % LimbBase]
          : a \in {x}, d \in {y}})

\* x * 2^s and x \div 2^s
ShiftLeft(x, s) ==
    Only({[k \in Limbs |->
              (Limb(a, k - w) % (2 ^ (LimbBits - b))) * (2 ^ b)
              + (Limb(a, k - w - 1) \div (2 ^ (LimbBits - b)))]
          : a \in {x}, w \in {s \div LimbBits}, b \in {s % LimbBits}})

ShiftRight(x, s) ==
    Only({[k \in Limbs |->
              (Limb(a, k + w) \div (2 ^ b))
              + (Limb(a, k + w + 1) % (2 ^ b)) * (2 ^ (LimbBits - b))]
          : a \in {x}, w \in {s \div LimbBits}, b \in {s % LimbBits}})

\* x * y for a machine integer 0 <= y < 2^30
BigTimes(x, y) ==
    Only({BigAdd(BigTimesLimb(a, n % LimbBase),
                 ShiftLeft(BigTimesLimb(a, n \div LimbBase), LimbBits))
          : a \in {x}, n \in {y}})

BigOdd(x) == x[1] % 2 = 1

\* the number of bits of x: 0 for 0, else n with 2^(n-1) <= x < 2^n
BitLength(x) ==
    Only({IF a = BigZero THEN 0
          ELSE LET top == CHOOSE k \in Limbs :
                              a[k] # 0 /\ \A j \in Limbs : j > k => a[j] = 0
                   n == CHOOSE n \in 1..LimbBits :
                              2 ^ (n - 1) <= a[top] /\ a[top] < 2 ^ n
               IN  (top - 1) * LimbBits + n
          : a \in {x}})

\* the bits of a binary64 significand
Precision == 53

\* round-to-nearest, ties-to-even, of x * 2^y (+ a non-zero fraction of the
\* last place of x when sticky), x # 0
RoundF64(neg, x, y, sticky) ==
    Only({IF s <= 0 THEN [neg |-> neg, m |-> m, e |-> e]
          ELSE LET kept == ShiftRight(m, s)
                   above == ShiftRight(m, s - 1)
                   guard == BigOdd(above)
                   below == sticky \/ ShiftLeft(above, s - 1) # m
                   m1 == IF guard /\ (below \/ BigOdd(kept))
                         THEN BigAdd(kept, BigInt(1)) ELSE kept
               IN  IF BitLength(m1) > Precision
                   THEN [neg |-> neg, m |-> ShiftRight(m1, 1), e |-> e + s + 1]
                   ELSE [neg |-> neg, m |-> m1, e |-> e + s]
          : m \in {x}, e \in {y}, s \in {BitLength(x) - Precision}})

\* the binary64 number an integer x (|x| < 2^31) is, significand normalised
IntF64(x) ==
    Only({IF n = 0 THEN [neg |-> FALSE, m |-> BigZero, e |-> 0]
          ELSE LET up == Precision - BitLength(BigInt(Abs(n)))
               IN  [neg |-> n < 0, m |-> ShiftLeft(BigInt(Abs(n)), up), e |-> -up]
          : n \in {x}})

\* long division in digits of DigitBits bits
DigitBits == 5
DivDigits == 12

\* one step of the division by y: the next quotient digit, floor(r / y),
\* which is below 2^DigitBits because r < 2^DigitBits * y
DivStep(x, y) ==
    Only({LET digit == CHOOSE n \in 0..(2 ^ DigitBits - 1) :
                           /\ ~BigLess(s.r, BigTimesLimb(d, n))
                           /\ BigLess(s.r, BigTimesLimb(d, n + 1))
          IN  [r |-> ShiftLeft(BigSub(s.r, BigTimesLimb(d, digit)), DigitBits),
               q |-> BigAdd(ShiftLeft(s.q, DigitBits), BigInt(digit))]
          : s \in {x}, d \in {y}})

\* x / y for normalised x and y # 0: the DivDigits digits of
\* floor(x.m * 2^(DigitBits * (DivDigits - 1)) / y.m), at least Precision + 1
\* bits, then rounding
DivF64(x, y) ==
    Only({IF a.m = BigZero THEN a
          ELSE LET step[n \in 0..DivDigits] ==
                       IF n = 0 THEN [r |-> a.m, q |-> BigZero]
                       ELSE DivStep(step[n - 1], b.m)
               IN  Only({RoundF64(a.neg # b.neg, last.q,
                                  a.e - b.e - DigitBits * (DivDigits - 1),
                                  last.r # BigZero)
                         : last \in {step[DivDigits]}})
          : a \in {x}, b \in {y}})

\* x * y for an integer x (exact in binary64, |x| < 2^30) and a normalised y
TimesF64(x, y) ==
    Only({IF n = 0 THEN IntF64(0)
          ELSE RoundF64((n < 0) # b.neg, BigTimes(b.m, Abs(n)), b.e, FALSE)
          : n \in {x}, b \in {y}})

\* Math.floor(x), for |x| < 2^31
FloorF64(x) ==
    Only({LET ip == IF a.e >= 0 THEN ShiftLeft(a.m, a.e) ELSE ShiftRight(a.m, -a.e)
              lost == a.e < 0 /\ ShiftLeft(ip, -a.e) # a.m
          IN  IF a.neg
              THEN -(BigValue(ip) + (IF lost THEN 1 ELSE 0))
              ELSE BigValue(ip)
          : a \in {x}})

\* const TILE_DEGREES = 0.0001: the binary64 number nearest to 1/10000
TileDegreesF64 == DivF64(IntF64(1), IntF64(10000))

\* cellToLatLng and latLngToCell on binary64 numbers
cellToLatLngF64(cell) ==
    [lat |-> TimesF64(cell.i, TileDegreesF64),
     lng |-> TimesF64(cell.j, TileDegreesF64)]

latLngToCellF64(latLng) ==
    Only({[i |-> FloorF64(DivF64(p.lat, TileDegreesF64)),
           j |-> FloorF64(DivF64(p.lng, TileDegreesF64))] : p \in {latLng}})

\* The two coordinate functions applied to cells around the start cell and
\* around the origin of the lattice: the player's cell is the input, and
\* Locate replaces it by the cell of the position cellToLatLng gives it.
CoordSpan == 5
OriginSpan == 13

CoordCells ==
    {At(di, dj) : di \in -CoordSpan..CoordSpan, dj \in -CoordSpan..CoordSpan}
    \cup {[i |-> a, j |-> b] : a \in {-OriginSpan, 0, OriginSpan},
                               b \in {-OriginSpan, 0, OriginSpan}}

InitCoord ==
    \E c \in CoordCells :
        Holds(updateStatusPanel([Boot(Null, "buttons") EXCEPT !.playerCell = c]))

Locate ==
    /\ playerCell' = latLngToCellF64(cellToLatLngF64(playerCell))
    /\ UNCHANGED <<playerInventory, cacheStates, activeCaches, mapCenter,
                   statusPanel, storage, alertMsg, addedToMap, removedFromMap,
                   movementMode>>

NextCoord == Locate

SpecCoord == InitCoord /\ [][NextCoord]_vars

----------------------------------------------------------------------------
(* Vocabulary of the properties *)

ActiveCells == {activeCaches[k].cell : k \in DOMAIN activeCaches}

Max(a, b) == IF a >= b THEN a ELSE b

\* Chebyshev distance between two cells
Distance(a, b) == Max(Abs(a.i - b.i), Abs(a.j - b.j))

\* the value the representation of `cell` holds in state g
LocalValue(g, cell) == g.activeCaches[cellKey(cell)].cacheValue

\* the guards of the three transitions, for held value h and cell value v
PickupGuard(h, v) == h = Null /\ v > 0
CraftGuard(h, v) == h # Null /\ v > 0 /\ h[1] = v
PlaceGuard(h, v) == h # Null /\ v = 0

\* g differs from the state the handler started in by its alert at most
NothingChanged(g) == [g EXCEPT !.alertMsg = NoAlert] = Event

\* key k carries an override of value v
Override(k, v) == k \in DOMAIN cacheStates /\ cacheStates[k].value = v

----------------------------------------------------------------------------
(* C1: an in-range click on an active cell with value v and held value h   *)
(* picks up (h null, v > 0: held = v, cell = 0), else crafts (h = v > 0:   *)
(* held = null, cell = 2h), else places (h non-null, v = 0: held = null,   *)
(* cell = h); in the remaining cases (h null and v = 0, or h non-null and  *)
(* v > 0 and h # v) nothing changes.  At most one guard holds.             *)
InteractionRules ==
    \A cell \in ActiveCells :
        Distance(cell, playerCell) <= INTERACT_RANGE =>
            LET h == playerInventory
                v == LocalValue(G, cell)
                r == handleInteraction(Event, cell)
                P == PickupGuard(h, v)
                C == CraftGuard(h, v)
                L == PlaceGuard(h, v)
            IN  /\ P => r.playerInventory = Some(v) /\ LocalValue(r, cell) = 0
                /\ C => r.playerInventory = Null /\ LocalValue(r, cell) = 2 * h[1]
                /\ L => r.playerInventory = Null /\ LocalValue(r, cell) = h[1]
                /\ ~(P \/ C \/ L) => NothingChanged(r) /\ r.alertMsg = NothingHappens
                /\ ~(P \/ C \/ L) <=> \/ h = Null /\ v = 0
                                      \/ h # Null /\ v > 0 /\ h[1] # v
                /\ ~(P /\ C) /\ ~(P /\ L) /\ ~(C /\ L)

\* a craft has made a 16 out of caches of 2, 4 and 8, and a click with an
\* empty hand on an emptied cache has then done nothing
InteractionRulesWitness ==
    /\ alertMsg = NothingHappens
    /\ playerInventory = Null
    /\ \E k \in DOMAIN cacheStates : cacheStates[k].value = 16
    /\ \E k \in DOMAIN cacheStates : cacheStates[k].value = 0

----------------------------------------------------------------------------
(* C2: range gating.  A click on a cell at Chebyshev distance d from the   *)
(* player's cell at the time of the click changes the held value or a cell *)
(* value only if d <= INTERACT_RANGE; at d = INTERACT_RANGE an applicable  *)
(* pickup, craft or place succeeds; at d = INTERACT_RANGE + 1 the attempt  *)
(* is OutOfRange whatever the held and cell values are.                    *)
RangeGating ==
    \A cell \in ActiveCells :
        LET d == Distance(cell, playerCell)
            h == playerInventory
            v == LocalValue(G, cell)
            r == handleInteraction(Event, cell)
            changed == \/ r.playerInventory # playerInventory
                       \/ r.cacheStates # cacheStates
                       \/ r.activeCaches # activeCaches
            applicable == PickupGuard(h, v) \/ CraftGuard(h, v) \/ PlaceGuard(h, v)
        IN  /\ changed => d <= INTERACT_RANGE
            /\ d = INTERACT_RANGE /\ applicable =>
                    /\ r.alertMsg = NoAlert
                    /\ r.playerInventory # playerInventory
                    /\ LocalValue(r, cell) # v
            /\ d > INTERACT_RANGE => r.alertMsg = TooFar /\ ~changed
            /\ d <= INTERACT_RANGE => r.alertMsg # TooFar

\* the player has moved since the caches were materialized, has picked up the
\* token of a cache that is never nearer than INTERACT_RANGE to where the
\* player can stand, and a click on a cache at INTERACT_RANGE + 1 has just
\* been refused
RangeGatingWitness ==
    /\ alertMsg = TooFar
    /\ playerCell # StartCell
    /\ playerInventory # Null
    /\ \E cell \in ActiveCells :
          /\ Distance(cell, playerCell) = INTERACT_RANGE
          /\ \A p \in Walkable : Distance(cell, p) >= INTERACT_RANGE
          /\ Override(cellKey(cell), 0)
    /\ \E cell \in ActiveCells :
          /\ Distance(cell, playerCell) = INTERACT_RANGE + 1
          /\ LocalValue(G, cell) > 0

----------------------------------------------------------------------------
(* C3: an interaction that ends in OutOfRange or NoOp writes nothing: the  *)
(* held value, the player's cell, the override map, the value the clicked  *)
(* cell displays and the persisted blob are the same before and after.     *)
NoWritesOnFailure ==
    \A cell \in ActiveCells :
        LET key == cellKey(cell)
            h == playerInventory
            v == LocalValue(G, cell)
            r == handleInteraction(Event, cell)
            failed == \/ Distance(cell, playerCell) > INTERACT_RANGE
                      \/ ~(PickupGuard(h, v) \/ CraftGuard(h, v) \/ PlaceGuard(h, v))
        IN  /\ failed <=> r.alertMsg \in {TooFar, NothingHappens}
            /\ failed =>
                  /\ r.playerInventory = playerInventory
                  /\ r.playerCell = playerCell
                  /\ r.cacheStates = cacheStates
                  /\ r.activeCaches[key].label = activeCaches[key].label
                  /\ r.activeCaches[key].cacheValue = activeCaches[key].cacheValue
                  /\ r.storage = storage

\* a click with a token in hand on a cache holding a different token has
\* just done nothing, with overrides and a blob in place to be lost
NoWritesOnFailureWitness ==
    /\ alertMsg = NothingHappens
    /\ playerInventory # Null
    /\ storage # Null
    /\ cacheStates # EmptyMap
    /\ \E cell \in ActiveCells :
          /\ Distance(cell, playerCell) <= INTERACT_RANGE
          /\ LocalValue(G, cell) > 0
          /\ LocalValue(G, cell) # playerInventory[1]

----------------------------------------------------------------------------
(* C4: every successful pickup, craft or place on a cell writes through:   *)
(* right after it the store holds an override for that cell whose value is *)
(* the new cell value (0 after a pickup), and no override of another cell  *)
(* is created or changed.                                                  *)
WriteThrough ==
    \A cell \in ActiveCells :
        LET key == cellKey(cell)
            h == playerInventory
            v == LocalValue(G, cell)
            r == handleInteraction(Event, cell)
            succeeds == /\ Distance(cell, playerCell) <= INTERACT_RANGE
                        /\ PickupGuard(h, v) \/ CraftGuard(h, v) \/ PlaceGuard(h, v)
            newValue == IF PickupGuard(h, v) THEN 0
                        ELSE IF CraftGuard(h, v) THEN 2 * v ELSE h[1]
        IN  succeeds =>
              /\ key \in DOMAIN r.cacheStates
              /\ r.cacheStates[key].value = newValue
              /\ r.cacheStates[key].value = LocalValue(r, cell)
              /\ DOMAIN r.cacheStates = DOMAIN cacheStates \cup {key}
              /\ \A k \in DOMAIN cacheStates \ {key} :
                    r.cacheStates[k] = cacheStates[k]

\* a pickup has stored a 0 for one cell and a craft a doubled value for another
WriteThroughWitness ==
    /\ alertMsg = NoAlert
    /\ playerInventory = Null
    /\ \E k1, k2 \in DOMAIN cacheStates :
          /\ cacheStates[k1].value = 0
          /\ cacheStates[k2].value = 2 * determineCacheValue([i |-> k2[1], j |-> k2[2]])

----------------------------------------------------------------------------
(* C5: when a craft produces a token of value >= TARGET_VALUE (the clicked *)
(* cell's new value is >= TARGET_VALUE and the held value becomes null),   *)
(* victory is signalled on that same step.                                 *)
CraftWinSignalsVictory ==
    \A cell \in ActiveCells :
        LET h == playerInventory
            v == LocalValue(G, cell)
            r == handleInteraction(Event, cell)
        IN  ( /\ Distance(cell, playerCell) <= INTERACT_RANGE
              /\ CraftGuard(h, v)
              /\ LocalValue(r, cell) >= TARGET_VALUE
              /\ r.playerInventory = Null )
            => r.statusPanel.victory

----------------------------------------------------------------------------
(* C6: after any successful transition the victory indicator is shown if   *)
(* and only if the new held value is non-null and >= TARGET_VALUE, and     *)
(* showing it blocks nothing: with victory shown, moving, a viewport       *)
(* update and every click do exactly what they do without it, and a token  *)
(* in hand can still be placed.                                            *)

VictoryDue(g) == g.playerInventory # Null /\ g.playerInventory[1] >= TARGET_VALUE

\* g without what the status panel shows
BesidesPanel(g) == [g EXCEPT !.statusPanel = <<>>]

\* Event as it would be had victory not been shown
Unsignalled == [Event EXCEPT !.statusPanel.victory = FALSE]

----------------------------------------------------------------------------
(* Viewport updates: regenerateCaches with the map centred where it is or  *)
(* where a drag can put it                                                 *)

Centers == {mapCenter} \cup PanTargets

\* the state regenerateCaches leaves when the map is centred at `center`
Updated(center) == regenerateCaches([Event EXCEPT !.mapCenter = center])

\* a cache exists at `cell` per the store: an override, or none and a spawn roll
\* below the spawn probability
CacheExists(g, cell) ==
    \/ cellKey(cell) \in DOMAIN g.cacheStates
    \/ /\ cellKey(cell) \notin DOMAIN g.cacheStates
       /\ luck(cell.i, cell.j, "spawn") * SpawnProbDen < SpawnProbNum * LuckScale

\* two modelled caches: the one on the start cell, seen only from around it,
\* and the one 55 rows north, seen only after a drag north
NearKey == cellKey(At(0, 0))
FarKey == cellKey(At(55, 0))

(* C7: after every viewport update with buffered range R the active       *)
(* representations are exactly the cells of R at which a cache exists per  *)
(* the store, one representation per cell.                                 *)
FlyweightCorrect ==
    \A center \in Centers :
        LET r == Updated(center)
            R == getVisibleCells(r)
        IN  /\ DOMAIN r.activeCaches =
                  {cellKey(c) : c \in {x \in R : CacheExists(r, x)}}
            /\ \A k \in DOMAIN r.activeCaches :
                  cellKey(r.activeCaches[k].cell) = k

\* a viewport update has just dropped the modified cache on the start cell
\* and materialized the far one
FlyweightCorrectWitness ==
    /\ FarKey \in DOMAIN activeCaches /\ FarKey \in addedToMap
    /\ NearKey \notin DOMAIN activeCaches /\ NearKey \in removedFromMap
    /\ NearKey \in DOMAIN cacheStates

(* C8: a second viewport update with the viewport and the store unchanged  *)
(* creates no representation and destroys none, and leaves every           *)
(* representation in place with its value.                                 *)
IdempotentUpdate ==
    \A center \in Centers :
        LET r1 == Updated(center)
            r2 == regenerateCaches(Fresh(r1))
        IN  /\ r2.addedToMap = {}
            /\ r2.removedFromMap = {}
            /\ r2.activeCaches = r1.activeCaches
            /\ r2 = Fresh(r1)

\* a viewport update has just created and destroyed representations while
\* the representation of a modified cell stayed in place
IdempotentUpdateWitness ==
    /\ addedToMap # {}
    /\ removedFromMap # {}
    /\ \E k \in DOMAIN activeCaches :
          k \notin addedToMap /\ k \in DOMAIN cacheStates

(* C9: a viewport update leaves the durable state alone: the override map, *)
(* the held value, the player's cell and the persisted blob are the same   *)
(* before and after, whatever enters or leaves.                            *)
UpdateKeepsDurableState ==
    \A center \in Centers :
        LET r == Updated(center)
        IN  /\ r.cacheStates = cacheStates
            /\ r.playerInventory = playerInventory
            /\ r.playerCell = playerCell
            /\ r.storage = storage

\* a viewport update has just destroyed the representation of a cell that
\* has an override, while the player holds a token
UpdateKeepsDurableStateWitness ==
    /\ \E k \in removedFromMap : k \in DOMAIN cacheStates
    /\ playerInventory # Null
    /\ storage # Null

(* C10: every active representation displays, and uses in its guards, the  *)
(* store's effective value of its cell (the override if there is one, the  *)
(* generated default otherwise); a modified cell that left the viewport    *)
(* and came back shows its modified value.                                 *)
RepresentationMatchesStore ==
    \A k \in DOMAIN activeCaches :
        LET rep == activeCaches[k]
        IN  /\ rep.cacheValue = getCacheValue(G, rep.cell)
            /\ rep.label = getCacheValue(G, rep.cell)
            /\ cellKey(rep.cell) = k

\* the emptied cache on the start cell has just re-entered the viewport (the
\* far cache left it) and shows 0, not its default
RepresentationMatchesStoreWitness ==
    /\ NearKey \in addedToMap /\ FarKey \in removedFromMap
    /\ Override(NearKey, 0)
    /\ activeCaches[NearKey].cacheValue = 0
    /\ determineCacheValue(At(0, 0)) # 0

----------------------------------------------------------------------------
\* the parsed object has the three properties of GameState, and a cell
WellFormed(saved) ==
    /\ IsJSON(saved)
    /\ {"playerCell", "playerInventory", "cacheStates"} \subseteq DOMAIN saved
    /\ {"i", "j"} \subseteq DOMAIN saved.playerCell

\* the player's cell, the held value and the override map of state g
Durable(g) == [playerCell |-> g.playerCell,
               playerInventory |-> g.playerInventory,
               cacheStates |-> g.cacheStates]

(* C11: a stored item that is not a well-formed GameState is rejected      *)
(* wholesale.  loadGameState returns false on it, and the page that loaded *)
(* it has the player's cell, held value and override map of a page that    *)
(* found nothing stored: as long as the item is in the store (every event  *)
(* that mutates one of the three replaces it), the player is at the start  *)
(* cell, holds nothing and there is no override.                           *)
MalformedBlobRejected ==
    (storage # Null /\ ~WellFormed(storage[1])) =>
        /\ ~loadGameState(G).ok
        /\ Durable(G) = Durable(Boot(Null, movementMode))

----------------------------------------------------------------------------
(* C12: persistence round trip.  Saving any reachable state and loading    *)
(* the blob in a new page gives the same player cell, the same held value  *)
(* and the same override map (overrides of value 0 included), hence the    *)
(* same effective value for every cell; the spawn decision is a function   *)
(* of the cell alone.                                                      *)
PersistenceRoundTrip ==
    LET saved == saveGameState(G).storage
        reloaded == Boot(saved, movementMode)
    IN  /\ loadGameState([G EXCEPT !.storage = saved]).ok
        /\ reloaded.playerCell = playerCell
        /\ reloaded.playerInventory = playerInventory
        /\ DOMAIN reloaded.cacheStates = DOMAIN cacheStates
        /\ \A k \in DOMAIN cacheStates :
              reloaded.cacheStates[k].value = cacheStates[k].value
        /\ \A cell \in Lattice :
              getCacheValue(reloaded, cell) = getCacheValue(G, cell)

\* a page just loaded from a blob that holds a token, an emptied cache and a
\* player away from the start cell
PersistenceRoundTripWitness ==
    /\ storage # Null
    /\ Durable(G) = Durable(Boot(storage, movementMode))
    /\ addedToMap = DOMAIN activeCaches /\ addedToMap # {}
    /\ removedFromMap = {} /\ alertMsg = NoAlert
    /\ playerInventory # Null
    /\ playerCell # StartCell
    /\ \E k \in DOMAIN cacheStates : cacheStates[k].value = 0
    /\ \E k \in DOMAIN cacheStates : cacheStates[k].value > 0

----------------------------------------------------------------------------
\* n is 2^k for some k >= 1
RECURSIVE IsTokenValue(_)
IsTokenValue(n) ==
    IF n < 2 THEN FALSE
    ELSE IF n = 2 THEN TRUE
    ELSE n % 2 = 0 /\ IsTokenValue(n \div 2)

(* C13: token value domain.  From a fresh world, every generated default   *)
(* is 2, 4 or 8; every override is 0 or a power of two >= 2; the held      *)
(* value is null or a power of two >= 2.  A click that changes a cell's    *)
(* value from a non-zero v to another non-zero value (a craft) happens     *)
(* only when the held value equals v, and the new value is 2 * v.          *)
TokenValueDomain ==
    /\ \A cell \in Lattice : determineCacheValue(cell) \in {2, 4, 8}
    /\ \A n \in 0..(LuckScale - 1) : 2 ^ (1 + ((n * 3) \div LuckScale)) \in {2, 4, 8}
    /\ \A k \in DOMAIN cacheStates :
          cacheStates[k].value = 0 \/ IsTokenValue(cacheStates[k].value)
    /\ playerInventory = Null \/ IsTokenValue(playerInventory[1])
    /\ \A cell \in ActiveCells :
          LET v == LocalValue(Event, cell)
              r == handleInteraction(Event, cell)
              w == LocalValue(r, cell)
          IN  (v # 0 /\ w # 0 /\ w # v) =>
                  /\ playerInventory = Some(v)
                  /\ w = 2 * v
                  /\ r.cacheStates[cellKey(cell)].value = 2 * v

\* two crafts in a row happened: a cell holds 8 made of 4 + 4, the 4 made of
\* 2 + 2 (the only default 8 is at offset (0, 4)), and a token is held
TokenValueDomainWitness ==
    /\ \E k \in DOMAIN cacheStates :
          /\ cacheStates[k].value = 8
          /\ k # cellKey(At(0, 4))
    /\ playerInventory # Null

----------------------------------------------------------------------------
(* C14: override records are never deleted within a game session.  Every   *)
(* step other than a confirmed New Game (which starts a new session) keeps *)
(* every key of the override map: moves, position fixes, viewport updates  *)
(* that destroy representations, clicks, page reloads.  A value may change *)
(* (also to 0); the key stays.                                             *)
OverridesNeverDeleted ==
    [][(DOMAIN cacheStates \subseteq DOMAIN cacheStates') \/ NewGameButton(TRUE)]_vars

\* three cells carry overrides, the one on the start cell was emptied and
\* its representation has since been destroyed, and the player has moved
OverridesNeverDeletedWitness ==
    /\ Override(NearKey, 0)
    /\ NearKey \notin DOMAIN activeCaches
    /\ Cardinality(DOMAIN cacheStates) >= 3
    /\ playerCell # StartCell

----------------------------------------------------------------------------
\* the cell a key of the two maps names
KeyCell(k) == [i |-> k[1], j |-> k[2]]

(* C15: three-way cell distinction.  A cell whose spawn roll is not below  *)
(* the probability never gets a representation (clicks reach only          *)
(* representations), so from a fresh world every active key and every      *)
(* override key is a spawning cell.  A spawning cell emptied by a pickup   *)
(* keeps its representation through the pickup, has a representation       *)
(* showing 0 after every viewport update whose range contains it, and      *)
(* takes the token of an in-range player who holds one.                    *)
ThreeWayDistinction ==
    /\ \A cell \in Lattice :
          ~shouldSpawnCache(cell) => createCacheVisual(Event, cell) = Event
    /\ \A k \in DOMAIN activeCaches : shouldSpawnCache(activeCaches[k].cell)
    /\ \A k \in DOMAIN cacheStates : shouldSpawnCache(KeyCell(k))
    /\ \A cell \in ActiveCells :
          cellKey(cell) \in DOMAIN handleInteraction(Event, cell).activeCaches
    /\ \A center \in Centers :
          LET r == Updated(center) IN
          \A cell \in getVisibleCells(r) :
              (/\ shouldSpawnCache(cell)
               /\ cellKey(cell) \in DOMAIN r.cacheStates
               /\ r.cacheStates[cellKey(cell)].value = 0)
              => /\ cellKey(cell) \in DOMAIN r.activeCaches
                 /\ LocalValue(r, cell) = 0
    /\ \A cell \in ActiveCells :
          (/\ Override(cellKey(cell), 0)
           /\ canInteract(G, cell)
           /\ playerInventory # Null)
          => LET r == handleInteraction(Event, cell)
             IN  /\ r.playerInventory = Null
                 /\ r.cacheStates[cellKey(cell)].value = playerInventory[1]
                 /\ LocalValue(r, cell) = playerInventory[1]

\* an emptied cache has just regained its representation, next to a player
\* who holds a token, while a non-spawning cell is in the viewport range
ThreeWayDistinctionWitness ==
    /\ \E k \in addedToMap :
          /\ Override(k, 0)
          /\ canInteract(G, KeyCell(k))
    /\ playerInventory # Null
    /\ \E cell \in getVisibleCells(G) : ~shouldSpawnCache(cell)

----------------------------------------------------------------------------
(* C16: coordinate round trip.  latLngToCell(cellToLatLng(c)) = c for      *)
(* every integer cell c, negative indices included, where cellToLatLng     *)
(* multiplies each index by TILE_DEGREES and latLngToCell floor-divides    *)
(* each axis by TILE_DEGREES, both in the program's binary64 arithmetic.   *)
CoordinateRoundTrip ==
    latLngToCellF64(cellToLatLngF64(playerCell)) = playerCell

----------------------------------------------------------------------------
(* C17: persistence is in step with memory.  In every reachable state, so  *)
(* after every completed event that changed the player's cell, the held    *)
(* value or the override map (button move, position fix, reset position,   *)
(* pickup, craft, place, confirmed new game), a page that loads what is    *)
(* in the store has exactly the current player cell, held value and        *)
(* override map; while nothing is stored, memory is the fresh world.       *)
PersistenceInStep ==
    /\ Durable(Boot(storage, movementMode)) = Durable(G)
    /\ storage # Null =>
          /\ loadGameState(G).ok
          /\ storage[1].playerCell = playerCell
          /\ storage[1].playerInventory = playerInventory
          /\ MapFromEntries(storage[1].cacheStates) = cacheStates

\* the blob records a player who has moved and holds a token, an emptied
\* cache and a cache whose value is not its default
PersistenceInStepWitness ==
    /\ storage # Null
    /\ storage[1].playerCell # StartCell
    /\ storage[1].playerInventory # Null
    /\ \E e \in storage[1].cacheStates : e[2].value = 0
    /\ \E e \in storage[1].cacheStates :
          e[2].value # 0 /\ e[2].value # determineCacheValue(KeyCell(e[1]))

----------------------------------------------------------------------------
\* g has the held value, the override map and the representations of the
\* state the handler started in
KeepsTokens(g) ==
    /\ g.playerInventory = playerInventory
    /\ g.cacheStates = cacheStates
    /\ g.activeCaches = activeCaches

----------------------------------------------------------------------------
\* the held value, counting null as 0
HeldValue(g) == IF g.playerInventory = Null THEN 0 ELSE g.playerInventory[1]

\* the cells of the region that have a cache, and the sum of their
\* effective values in state g (the number of pairs <<cell, n>> with
\* 1 <= n <= value)
SpawningCells == {c \in Lattice : shouldSpawnCache(c)}

TotalValue(g) ==
    Cardinality(UNION {{<<cellKey(c), n>> : n \in 1..getCacheValue(g, c)} :
                          c \in SpawningCells})

\* the world of a first page load, and the tokens in it
FreshWorld == Boot(Null, "buttons")
FreshTotal == HeldValue(FreshWorld) + TotalValue(FreshWorld)

\* g gives every cell of the region the effective value it has now
SameValues(g) ==
    \A c \in SpawningCells : getCacheValue(g, c) = getCacheValue(G, c)

(* C19: token conservation.  A click leaves (held value, null as 0) +      *)
(* (effective value of the clicked cell) unchanged and changes the         *)
(* effective value of no other cell; moves, position fixes and viewport    *)
(* updates change no value at all.  So in every state reachable from the   *)
(* fresh world the sum of the effective values of all cells of the region  *)
(* plus the held value is what it is in the fresh world.                   *)
TokenConservation ==
    /\ HeldValue(G) + TotalValue(G) = FreshTotal
    /\ \A cell \in ActiveCells :
          LET r == handleInteraction(Event, cell)
          IN  /\ HeldValue(r) + getCacheValue(r, cell)
                    = HeldValue(G) + getCacheValue(G, cell)
              /\ \A other \in SpawningCells \ {cell} :
                    getCacheValue(r, other) = getCacheValue(G, other)
    /\ \A d \in Directions :
          LET r == movePlayer(Event, d[1], d[2])
          IN  HeldValue(r) = HeldValue(G) /\ SameValues(r)
    /\ \A center \in Centers :
          LET r == Updated(center)
          IN  HeldValue(r) = HeldValue(G) /\ SameValues(r)

\* every token around the start cell has been gathered: 2 + 2 + 4 crafted
\* into an 8 in one cell, the generated 8 in hand, the other cells empty
TokenConservationWitness ==
    /\ playerInventory = Some(8)
    /\ Override(cellKey(At(0, 4)), 0)
    /\ \E k \in DOMAIN cacheStates : cacheStates[k].value = 8
    /\ Cardinality({k \in DOMAIN cacheStates : cacheStates[k].value = 0}) = 3

----------------------------------------------------------------------------
\* what saveGameState stores for the fresh state
FreshBlob == [playerCell |-> StartCell, playerInventory |-> Null,
              cacheStates |-> {}]

(* C20: new game.  After a confirmed resetGame, from any reachable state,  *)
(* the override map is empty, the held value is null, the player is on     *)
(* the start cell, the stored blob is the fresh state, and every active    *)
(* representation holds and shows the generated default of its cell (the   *)
(* representations are those of a first page load).  After a declined      *)
(* one, nothing has changed: player state, override map, representations   *)
(* and blob are as before.                                                 *)
NewGameResets ==
    /\ LET r == resetGame(Event, TRUE)
       IN  /\ r.cacheStates = EmptyMap
           /\ r.playerInventory = Null
           /\ r.playerCell = StartCell
           /\ r.storage = Some(FreshBlob)
           /\ Durable(Boot(r.storage, movementMode)) = Durable(FreshWorld)
           /\ \A k \in DOMAIN r.activeCaches :
                 /\ r.activeCaches[k].cacheValue =
                        determineCacheValue(r.activeCaches[k].cell)
                 /\ r.activeCaches[k].label =
                        determineCacheValue(r.activeCaches[k].cell)
           /\ r.activeCaches = FreshWorld.activeCaches
    /\ LET r == resetGame(Event, FALSE)
       IN  /\ r.playerCell = playerCell
           /\ r.playerInventory = playerInventory
           /\ r.cacheStates = cacheStates
           /\ r.activeCaches = activeCaches
           /\ r.storage = storage
           /\ r = Event

\* a confirmed new game has just replaced every representation (the same
\* keys were erased and drawn again) and stored the fresh state
NewGameResetsWitness ==
    /\ removedFromMap \cap addedToMap # {}
    /\ NearKey \in addedToMap
    /\ storage = Some(FreshBlob)
    /\ cacheStates = EmptyMap /\ playerInventory = Null /\ playerCell = StartCell

====
